---- MODULE Spec2Model ----
(***************************************************************************)
(* PEP 514 interactions with the Windows registry                          *)
(* (crates/uv-python/src/windows_registry.rs).                             *)
(*                                                                         *)
(* The registry is a tree of keys, each holding named, typed values.  The  *)
(* model keeps it as                                                       *)
(*   store.keys : key path -> [open, list]   (the keys that exist, and     *)
(*                whether opening / enumerating them succeeds)             *)
(*   store.vals : <<key path, value name>> -> [type, data]                 *)
(* A key path is <<scope>> for scope\Software\Python, <<scope, company>>,  *)
(* <<scope, company, tag>> and <<scope, company, tag, "InstallPath">>.     *)
(***************************************************************************)
EXTENDS Integers, Sequences, FiniteSets, TLC

VARIABLES
    store,          \* the registry
    scan,           \* None, or Some(what registry_pythons returned on `store`)
    pc,             \* 0: no call running; k in 1..15: next mutation of write_registry_entry
    cur,            \* None, or Some(installation being registered)
    pointer_width,  \* the pointer_width local of create_registry_entry
    errors,         \* the caller's errors vector
    calls,          \* the finished create_registry_entry calls, in order
    before,         \* the registry as it was when the running (or last) call began
    input,          \* Ranker alone: the entries in the order they were found
    output          \* Ranker alone: None, or Some(the sorted entries)

vars == <<store, scan, pc, cur, pointer_width, errors, calls, before, input, output>>

(***************************************************************************)
(* Bounds of the model.                                                    *)
(***************************************************************************)
MaxForeign == 2     \* tags registered by other tools
MaxCalls == 2       \* create_registry_entry calls in one batch
MaxEntries == 3     \* entries handed to the sort
MaxFaults == 1      \* keys whose opening or enumeration fails

(***************************************************************************)
(* Option and Result values.                                               *)
(***************************************************************************)
None == <<>>
Some(v) == <<v>>
IsSome(o) == o # <<>>
Unwrap(o) == o[1]

(***************************************************************************)
(* Names.                                                                  *)
(***************************************************************************)
CURRENT_USER == "HKCU"
LOCAL_MACHINE == "HKLM"
Scopes == {CURRENT_USER, LOCAL_MACHINE}
\* The root keys in the order the scan visits them.
RootKeys == <<CURRENT_USER, LOCAL_MACHINE>>
COMPANY == "Astral"
Reserved == "PyLauncher"

\* Registry key names are case-insensitive: two siblings never differ in case only.
Lower(name) ==
    CASE name = "PyLauncher" -> "pylauncher"
      [] name = "PythonCore" -> "pythoncore"
      [] name = "Astral" -> "astral"
      [] OTHER -> name

(***************************************************************************)
(* The store's primitives (windows_registry::Key).                         *)
(***************************************************************************)
REG_SZ == "REG_SZ"
REG_DWORD == "REG_DWORD"
Sz(text) == [type |-> REG_SZ, data |-> text]
Dword == [type |-> REG_DWORD, data |-> "1"]
NewKey == [open |-> TRUE, list |-> TRUE]
EmptyStore == [keys |-> <<>>, vals |-> <<>>]

Exists(st, path) == path \in DOMAIN st.keys

\* Key::open: succeeds when the key exists and access is granted.
CanOpen(st, path) == Exists(st, path) /\ st.keys[path].open

\* Key::keys: fails when the key cannot be enumerated.
CanList(st, path) == Exists(st, path) /\ st.keys[path].list

\* The names of the subkeys of `path`.
Children(st, path) ==
    { p[Len(p)] : p \in { q \in DOMAIN st.keys :
                            /\ Len(q) = Len(path) + 1
                            /\ SubSeq(q, 1, Len(path)) = path } }

\* Key::get_value(name) followed by String::try_from: the text, or None when the
\* value is missing or not a string.
GetString(st, path, name) ==
    IF /\ <<path, name>> \in DOMAIN st.vals
       /\ st.vals[<<path, name>>].type = REG_SZ
    THEN Some(st.vals[<<path, name>>].data)
    ELSE None

Prefixes(path) == { SubSeq(path, 1, n) : n \in 1..Len(path) }

\* Key::create: creates the key and its missing ancestors; an existing key is kept
\* as it is, with its values and subkeys.
CreateKey(st, path) ==
    LET missing == { p \in Prefixes(path) : ~Exists(st, p) }
    IN  [st EXCEPT !.keys = [p \in missing |-> NewKey] @@ st.keys]

\* Key::set_string / Key::set_value: writes or overwrites one value.
SetValue(st, path, name, value) ==
    [st EXCEPT !.vals = (<<path, name>> :> value) @@ st.vals]

(***************************************************************************)
(* PythonVersion (crate::PythonVersion): parsing and order.  A parsed        *)
(* version is its release <<major, minor, patch>>, a missing patch being 0.  *)
(***************************************************************************)
Majors == {3}
Minors == 10..13
Patches == {0, 1, 5, 16}
Releases == { <<a, b>> : a \in Majors, b \in Minors }
               \cup { <<a, b, c>> : a \in Majors, b \in Minors, c \in Patches }

\* Display of a release: its numbers joined by dots.
ReleaseText(r) ==
    IF Len(r) = 2
    THEN ToString(r[1]) \o "." \o ToString(r[2])
    ELSE ToString(r[1]) \o "." \o ToString(r[2]) \o "." \o ToString(r[3])

PadRelease(r) == IF Len(r) = 2 THEN <<r[1], r[2], 0>> ELSE r

\* Every text that parses, with the version it parses to.
VersionTexts == { <<ReleaseText(r), PadRelease(r)>> : r \in Releases }

\* PythonVersion::from_str: Some(version), or None for a parse error.
from_str(s) ==
    LET hit == { p \in VersionTexts : p[1] = s }
    IN  IF hit = {} THEN None ELSE Some((CHOOSE p \in hit : TRUE)[2])

Less == "Less"
Equal == "Equal"
Greater == "Greater"

cmp_int(a, b) == IF a < b THEN Less ELSE IF a > b THEN Greater ELSE Equal

\* Ordering::reverse and Ordering::then.
reverse(o) == IF o = Less THEN Greater ELSE IF o = Greater THEN Less ELSE Equal
then(o, other) == IF o = Equal THEN other ELSE o

\* Ord for PythonVersion: by major, then minor, then patch.
cmp_version(a, b) ==
    then(cmp_int(a[1], b[1]), then(cmp_int(a[2], b[2]), cmp_int(a[3], b[3])))

(***************************************************************************)
(* Paths (std::path::PathBuf) and their order: every path of the model, in   *)
(* ascending order.                                                          *)
(***************************************************************************)
PathOrder ==
    << "",
       "C:\\Python311\\python.exe",
       "C:\\Python312\\python.exe",
       "C:\\uv\\cpython-3.13.1",
       "C:\\uv\\cpython-3.13.1\\python.exe",
       "C:\\uv\\cpython-3.13.1\\pythonw.exe",
       "C:\\uv\\pypy-3.10.16",
       "C:\\uv\\pypy-3.10.16\\python.exe",
       "C:\\uv\\pypy-3.10.16\\pythonw.exe" >>

PathRank(p) == CHOOSE i \in 1..Len(PathOrder) : PathOrder[i] = p

cmp_path(a, b) == cmp_int(PathRank(a), PathRank(b))

(***************************************************************************)
(* WindowsPython and the sort of registry_pythons.                         *)
(***************************************************************************)
WindowsPython(path, version) == [path |-> path, version |-> version]

\* The closure without its tie-breaker: entries of one version compare Equal.
sort_cmp_no_tie_break(a, b) ==
    CASE IsSome(a.version) /\ ~IsSome(b.version) -> Greater
      [] ~IsSome(a.version) /\ IsSome(b.version) -> Less
      [] IsSome(a.version) /\ IsSome(b.version) ->
            reverse(cmp_version(Unwrap(a.version), Unwrap(b.version)))
      [] OTHER -> cmp_path(a.path, b.path)

\* The closure handed to sort_by: the Ordering of a relative to b.
sort_cmp(a, b) ==
    CASE IsSome(a.version) /\ ~IsSome(b.version) -> Greater
      [] ~IsSome(a.version) /\ IsSome(b.version) -> Less
      [] IsSome(a.version) /\ IsSome(b.version) ->
            then(reverse(cmp_version(Unwrap(a.version), Unwrap(b.version))),
                 cmp_path(a.path, b.path))
      [] OTHER -> cmp_path(a.path, b.path)

Front(s) == SubSeq(s, 1, Len(s) - 1)
Last(s) == s[Len(s)]

\* slice::sort_by is a stable ascending sort: x goes behind every element that
\* does not compare Greater than it.
RECURSIVE Insert(_, _)
Insert(s, x) ==
    IF s = <<>> THEN <<x>>
    ELSE IF sort_cmp(Last(s), x) = Greater
         THEN Append(Insert(Front(s), x), Last(s))
         ELSE Append(s, x)

RECURSIVE Rank(_)
Rank(s) == IF s = <<>> THEN <<>> ELSE Insert(Rank(Front(s)), Last(s))

(***************************************************************************)
(* read_registry_entry and registry_pythons.                               *)
(***************************************************************************)
INSTALL_PATH == "InstallPath"

\* The entry dropped when its SysVersion does not parse.
read_registry_entry_skip_unparsed(st, tag_key) ==
    LET install_path == Append(tag_key, INSTALL_PATH)
        executable_path ==
            IF CanOpen(st, install_path)
            THEN GetString(st, install_path, "ExecutablePath")
            ELSE None
        sys_version == GetString(st, tag_key, "SysVersion")
        version == IF IsSome(sys_version) THEN from_str(Unwrap(sys_version)) ELSE None
    IN  IF ~IsSome(executable_path) \/ (IsSome(sys_version) /\ ~IsSome(version))
        THEN None
        ELSE Some(WindowsPython(Unwrap(executable_path), version))

\* The entry dropped when its ExecutablePath is the empty text.
read_registry_entry_non_empty(st, tag_key) ==
    LET install_path == Append(tag_key, INSTALL_PATH)
        executable_path ==
            IF CanOpen(st, install_path)
            THEN GetString(st, install_path, "ExecutablePath")
            ELSE None
        sys_version == GetString(st, tag_key, "SysVersion")
        version == IF IsSome(sys_version) THEN from_str(Unwrap(sys_version)) ELSE None
    IN  IF ~IsSome(executable_path) \/ executable_path = Some("")
        THEN None
        ELSE Some(WindowsPython(Unwrap(executable_path), version))

\* Some(WindowsPython), or None for a tag that is not executable.
read_registry_entry(st, tag_key) ==
    LET install_path == Append(tag_key, INSTALL_PATH)
        executable_path ==
            IF CanOpen(st, install_path)
            THEN GetString(st, install_path, "ExecutablePath")
            ELSE None
        sys_version == GetString(st, tag_key, "SysVersion")
        version == IF IsSome(sys_version) THEN from_str(Unwrap(sys_version)) ELSE None
    IN  IF ~IsSome(executable_path)
        THEN None
        ELSE Some(WindowsPython(Unwrap(executable_path), version))

\* The subkey names of `path` in the order the registry hands them out: `order`
\* gives every key an order of its subkeys, the registry having none of its own.
Enumerate(st, path, order) == order[path]

ScanStart == [ok |-> TRUE, pythons |-> <<>>, err |-> <<>>, opened |-> {}]
\* The error of a failed enumeration or open dropped: the loop is left, the scan
\* goes on.
ScanFailSwallowed(acc, what, path) == acc

\* `?` on key_python.keys(), company_key.keys() and company_key.open(&tag): the
\* scan ends with the error and without a list.
ScanFail(acc, what, path) ==
    [ok |-> FALSE, pythons |-> <<>>, err |-> <<what>> \o path, opened |-> acc.opened]
Opened(acc, paths) == [acc EXCEPT !.opened = @ \cup paths]

\* for tag in company_key.keys()? { ... }
RECURSIVE ScanTags(_, _, _, _)
ScanTags(st, company_key, tags, acc) ==
    IF tags = <<>> THEN acc
    ELSE LET tag_key == Append(company_key, Head(tags))
             install_path == Append(tag_key, INSTALL_PATH)
             entry == read_registry_entry(st, tag_key)
             seen == Opened(acc, {tag_key} \cup
                        IF CanOpen(st, install_path) THEN {install_path} ELSE {})
         IN  IF ~CanOpen(st, tag_key)
             THEN ScanFail(acc, "open", tag_key)
             ELSE ScanTags(st, company_key, Tail(tags),
                           IF IsSome(entry)
                           THEN [seen EXCEPT !.pythons = Append(@, Unwrap(entry))]
                           ELSE seen)

\* The reserved name not skipped.
is_reserved_never(company) == FALSE

\* if company == "PyLauncher" { continue; }: an exact comparison of the names.
is_reserved(company) == company = Reserved

\* for company in key_python.keys()? { ... }
RECURSIVE ScanCompanies(_, _, _, _, _)
ScanCompanies(st, root_key, companies, order, acc) ==
    IF companies = <<>> THEN acc
    ELSE LET company == Head(companies)
             company_key == <<root_key, company>>
             rest == Tail(companies)
         IN  IF is_reserved(company)
             THEN ScanCompanies(st, root_key, rest, order, acc)
             ELSE IF ~CanOpen(st, company_key)
             THEN ScanCompanies(st, root_key, rest, order, acc)
             ELSE IF ~CanList(st, company_key)
             THEN ScanFail(Opened(acc, {company_key}), "keys", company_key)
             ELSE LET r == ScanTags(st, company_key,
                                    Enumerate(st, company_key, order),
                                    Opened(acc, {company_key}))
                  IN  IF r.ok THEN ScanCompanies(st, root_key, rest, order, r) ELSE r

\* for root_key in [CURRENT_USER, LOCAL_MACHINE] { ... }
RECURSIVE ScanRoots(_, _, _, _)
ScanRoots(st, roots, order, acc) ==
    IF roots = <<>> THEN acc
    ELSE LET key_python == <<Head(roots)>>
         IN  IF ~CanOpen(st, key_python)
             THEN ScanRoots(st, Tail(roots), order, acc)
             ELSE IF ~CanList(st, key_python)
             THEN ScanFail(Opened(acc, {key_python}), "keys", key_python)
             ELSE LET r == ScanCompanies(st, Head(roots),
                                Enumerate(st, key_python, order),
                                order, Opened(acc, {key_python}))
                  IN  IF r.ok THEN ScanRoots(st, Tail(roots), order, r) ELSE r

\* registry_pythons: the scan of both scopes, then the sort.
registry_pythons(st, order) ==
    LET r == ScanRoots(st, RootKeys, order, ScanStart)
    IN  IF r.ok THEN [r EXCEPT !.pythons = Rank(@)] ELSE r

\* The orders in which the registry may enumerate the names it holds.
Perms(S) ==
    { f \in [1..Cardinality(S) -> S] : \A i, j \in 1..Cardinality(S) : f[i] = f[j] => i = j }
RECURSIVE OrdersOver(_, _)
OrdersOver(st, parents) ==
    IF parents = {} THEN { <<>> }
    ELSE LET p == CHOOSE q \in parents : TRUE
         IN  { (p :> o) @@ f : o \in Perms(Children(st, p)),
                               f \in OrdersOver(st, parents \ {p}) }
EnumOrders(st) == OrdersOver(st, { p \in DOMAIN st.keys : Len(p) <= 2 })

(***************************************************************************)
(* ManagedPythonInstallation and its key (crate::managed): the record the    *)
(* Writer reads.                                                             *)
(***************************************************************************)
U16 == "U16"
U32 == "U32"
U64 == "U64"

\* Arch::family().pointer_width(): Some(width), or None when the family has none.
family_pointer_width(arch) ==
    CASE arch = "x86_64" -> Some(U64)
      [] arch = "x86" -> Some(U32)
      [] arch = "avr" -> Some(U16)
      [] OTHER -> None

Installation(pretty, version, arch, path, url, sha256) ==
    [pretty |-> pretty, version |-> version, arch |-> arch, path |-> path,
     url |-> url, sha256 |-> sha256]

Installations ==
    { Installation("CPython", <<3, 13, 1>>, "x86_64", "C:\\uv\\cpython-3.13.1",
                   Some("https://example.invalid/cpython-3.13.1.tar.gz"), Some("0a1b")),
      Installation("PyPy", <<3, 10, 16>>, "x86", "C:\\uv\\pypy-3.10.16", None, None),
      Installation("CPython", <<3, 13, 1>>, "avr", "C:\\uv\\cpython-3.13.1", None, None),
      Installation("PyPy", <<3, 10, 16>>, "unknown", "C:\\uv\\pypy-3.10.16", None, None) }

\* installation.key(): implementation, version and architecture.
key(inst) == <<inst.pretty, inst.version, inst.arch>>
\* installation.key().version().to_string() and installation.key().sys_version().
version_string(inst) == ReleaseText(inst.version)
sys_version(inst) == ReleaseText(<<inst.version[1], inst.version[2]>>)
\* installation.executable(windowed).
executable(inst, windowed) ==
    inst.path \o (IF windowed THEN "\\pythonw.exe" ELSE "\\python.exe")

(***************************************************************************)
(* create_registry_entry and write_registry_entry.                         *)
(***************************************************************************)
SUPPORT_URL == "https://github.com/astral-sh/uv"

\* The match with a 16-bit arm: every known width is let through.
derive_pointer_width_any(inst) ==
    LET w == family_pointer_width(inst.arch)
    IN  IF w = Some(U16) THEN Some(16)
        ELSE IF w = Some(U32) THEN Some(32)
        ELSE IF w = Some(U64) THEN Some(64)
        ELSE None

\* The match on the pointer width: Some(32), Some(64), or None for the
\* InvalidPointerSize return.
derive_pointer_width(inst) ==
    LET w == family_pointer_width(inst.arch)
    IN  IF w = Some(U32) THEN Some(32)
        ELSE IF w = Some(U64) THEN Some(64)
        ELSE None

InvalidPointerSize(arch) == <<"InvalidPointerSize", arch>>
RetOk == <<"Ok">>

company_key == <<CURRENT_USER, COMPANY>>
python_tag(inst) == inst.pretty \o version_string(inst)
tag_key_of(inst) == Append(company_key, python_tag(inst))
install_path_of(inst) == Append(tag_key_of(inst), INSTALL_PATH)
display_name(inst, pw) ==
    inst.pretty \o " " \o version_string(inst) \o " (" \o ToString(pw) \o "-bit)"

Create(path) == [op |-> "create", path |-> path, name |-> "", value |-> Sz("")]
Set(path, name, text) == [op |-> "set", path |-> path, name |-> name, value |-> Sz(text)]

LastStep == 15

\* The store calls with ExecutablePath written before WindowedExecutablePath's
\* turn but after it in the source: the last two exchanged.
StepLastTwoSwapped(k, inst, pw) ==
    CASE k = 1 -> Create(company_key)
      [] k = 2 -> Set(company_key, "DisplayName", "Astral")
      [] k = 3 -> Set(company_key, "SupportUrl", SUPPORT_URL)
      [] k = 4 -> Create(tag_key_of(inst))
      [] k = 5 -> Set(tag_key_of(inst), "DisplayName", display_name(inst, pw))
      [] k = 6 -> Set(tag_key_of(inst), "SupportUrl", SUPPORT_URL)
      [] k = 7 -> Set(tag_key_of(inst), "Version", version_string(inst))
      [] k = 8 -> Set(tag_key_of(inst), "SysVersion", sys_version(inst))
      [] k = 9 -> Set(tag_key_of(inst), "SysArchitecture", ToString(pw) \o "bit")
      [] k = 10 -> Set(tag_key_of(inst), "DownloadUrl", Unwrap(inst.url))
      [] k = 11 -> Set(tag_key_of(inst), "DownloadSha256", Unwrap(inst.sha256))
      [] k = 12 -> Create(install_path_of(inst))
      [] k = 13 -> Set(install_path_of(inst), "", inst.path)
      [] k = 14 -> Set(install_path_of(inst), "WindowedExecutablePath",
                       executable(inst, TRUE))
      [] k = 15 -> Set(install_path_of(inst), "ExecutablePath", executable(inst, FALSE))

\* The store calls with InstallPath and its values written before the tag's own
\* values.
StepInstallPathFirst(k, inst, pw) ==
    CASE k = 1 -> Create(company_key)
      [] k = 2 -> Set(company_key, "DisplayName", "Astral")
      [] k = 3 -> Set(company_key, "SupportUrl", SUPPORT_URL)
      [] k = 4 -> Create(install_path_of(inst))
      [] k = 5 -> Set(install_path_of(inst), "", inst.path)
      [] k = 6 -> Set(install_path_of(inst), "ExecutablePath", executable(inst, FALSE))
      [] k = 7 -> Set(install_path_of(inst), "WindowedExecutablePath",
                      executable(inst, TRUE))
      [] k = 8 -> Set(tag_key_of(inst), "DisplayName", display_name(inst, pw))
      [] k = 9 -> Set(tag_key_of(inst), "SupportUrl", SUPPORT_URL)
      [] k = 10 -> Set(tag_key_of(inst), "DownloadUrl", Unwrap(inst.url))
      [] k = 11 -> Set(tag_key_of(inst), "DownloadSha256", Unwrap(inst.sha256))
      [] k = 12 -> Set(tag_key_of(inst), "Version", version_string(inst))
      [] k = 13 -> Set(tag_key_of(inst), "SysVersion", sys_version(inst))
      [] k = 14 -> Set(tag_key_of(inst), "SysArchitecture", ToString(pw) \o "bit")
      [] k = 15 -> Set(tag_key_of(inst), "SupportUrl", SUPPORT_URL)

\* The k-th store call of write_registry_entry, in source order.
Step(k, inst, pw) ==
    CASE k = 1 -> Create(company_key)
      [] k = 2 -> Set(company_key, "DisplayName", "Astral")
      [] k = 3 -> Set(company_key, "SupportUrl", SUPPORT_URL)
      [] k = 4 -> Create(tag_key_of(inst))
      [] k = 5 -> Set(tag_key_of(inst), "DisplayName", display_name(inst, pw))
      [] k = 6 -> Set(tag_key_of(inst), "SupportUrl", SUPPORT_URL)
      [] k = 7 -> Set(tag_key_of(inst), "Version", version_string(inst))
      [] k = 8 -> Set(tag_key_of(inst), "SysVersion", sys_version(inst))
      [] k = 9 -> Set(tag_key_of(inst), "SysArchitecture", ToString(pw) \o "bit")
      [] k = 10 -> Set(tag_key_of(inst), "DownloadUrl", Unwrap(inst.url))
      [] k = 11 -> Set(tag_key_of(inst), "DownloadSha256", Unwrap(inst.sha256))
      [] k = 12 -> Create(install_path_of(inst))
      [] k = 13 -> Set(install_path_of(inst), "", inst.path)
      [] k = 14 -> Set(install_path_of(inst), "ExecutablePath", executable(inst, FALSE))
      [] k = 15 -> Set(install_path_of(inst), "WindowedExecutablePath",
                       executable(inst, TRUE))

\* if let Some(url) = installation.url() / if let Some(sha256) = installation.sha256()
Present(k, inst) ==
    /\ k = 10 => IsSome(inst.url)
    /\ k = 11 => IsSome(inst.sha256)

\* The store call that follows the k-th one; LastStep + 1 when there is none.
NextStep(k, inst) ==
    LET later == { j \in (k + 1)..LastStep : Present(j, inst) }
    IN  IF later = {} THEN LastStep + 1
        ELSE CHOOSE j \in later : \A i \in later : j <= i

Apply(st, m) ==
    IF m.op = "create" THEN CreateKey(st, m.path)
    ELSE SetValue(st, m.path, m.name, m.value)

IoError == "windows_result::Error"

\* One finished call: the installation, what the call returned, and the store call
\* of write_registry_entry that failed (0: none failed, or none was made).
Call(inst, ret, failed) == [inst |-> inst, ret |-> ret, failed |-> failed]

\* create_registry_entry up to the call of write_registry_entry: the typed error
\* ends the call, a known width starts the writes.
CreateRegistryEntry(inst) ==
    /\ pc = 0
    /\ Len(calls) < MaxCalls
    /\ before' = store
    /\ scan' = None
    /\ IF IsSome(derive_pointer_width(inst))
       THEN /\ pointer_width' = Unwrap(derive_pointer_width(inst))
            /\ cur' = Some(inst)
            /\ pc' = 1
            /\ UNCHANGED <<store, errors, calls>>
       ELSE /\ calls' = Append(calls, Call(inst, InvalidPointerSize(inst.arch), 0))
            /\ UNCHANGED <<store, errors, pc, cur, pointer_width>>
    /\ UNCHANGED <<input, output>>

\* The error of write_registry_entry dropped instead of pushed.
collect_nothing(errs, inst, failed) == errs

\* if let Err(err) = write_registry_entry(..) { errors.push((key, err.into())) }
collect(errs, inst, failed) ==
    IF failed THEN Append(errs, <<key(inst), IoError>>) ELSE errs

\* The call returns Ok(()).
Returned(failed) ==
    /\ calls' = Append(calls, Call(Unwrap(cur), RetOk, failed))
    /\ errors' = collect(errors, Unwrap(cur), failed # 0)
    /\ pc' = 0
    /\ cur' = None
    /\ pointer_width' = 0

\* One store call of write_registry_entry succeeds; after the last one the call
\* returns.
WriteOk ==
    /\ pc \in 1..LastStep
    /\ store' = Apply(store, Step(pc, Unwrap(cur), pointer_width))
    /\ scan' = None
    /\ IF NextStep(pc, Unwrap(cur)) <= LastStep
       THEN /\ pc' = NextStep(pc, Unwrap(cur))
            /\ UNCHANGED <<cur, pointer_width, calls, errors>>
       ELSE Returned(0)
    /\ UNCHANGED <<before, input, output>>

\* One store call fails: `?` leaves write_registry_entry, the error joins the
\* caller's list and the call returns Ok(()).
WriteErr ==
    /\ pc \in 1..LastStep
    /\ scan' = None
    /\ Returned(pc)
    /\ UNCHANGED <<store, before, input, output>>

\* registry_pythons, run on the registry as it is now.
Scan ==
    /\ \E order \in EnumOrders(store) : scan' = Some(registry_pythons(store, order))
    /\ UNCHANGED <<store, pc, cur, pointer_width, errors, calls, before, input, output>>

(***************************************************************************)
(* The rest of the machine: other tools register interpreters under either   *)
(* scope, and access to a key may be denied.                                 *)
(***************************************************************************)
PATH_311 == "C:\\Python311\\python.exe"
PATH_312 == "C:\\Python312\\python.exe"

\* What another tool leaves under a tag: whether InstallPath exists, its
\* ExecutablePath value and the tag's SysVersion value.
Shape(install_path, exe, sys) == [install_path |-> install_path, exe |-> exe, sys |-> sys]

\* Every shape: each kind of ExecutablePath and SysVersion value, with and without
\* the InstallPath key.
ExeValues == {None, Some(Dword), Some(Sz("")), Some(Sz(PATH_311)), Some(Sz(PATH_312))}
SysValues ==
    {None, Some(Dword), Some(Sz("")), Some(Sz("3.12-dev")), Some(Sz("3.11.5")),
     Some(Sz("3.12"))}
AllShapes ==
    { Shape(TRUE, e, v) : e \in ExeValues, v \in SysValues }
        \cup { Shape(FALSE, None, v) : v \in SysValues }

\* The shapes of the whole-registry scan: usable with a version, usable with a
\* SysVersion that does not parse, ExecutablePath of the wrong type, ExecutablePath
\* missing, InstallPath missing.
Shapes ==
    { Shape(TRUE, Some(Sz(PATH_312)), Some(Sz("3.12"))),
      Shape(TRUE, Some(Sz(PATH_311)), Some(Sz("3.12-dev"))),
      Shape(TRUE, Some(Dword), Some(Sz("3.12"))),
      Shape(TRUE, None, Some(Sz("3.12"))),
      Shape(FALSE, None, Some(Sz("3.12"))) }

ForeignCompanies == {"PyLauncher", "pylauncher", "PythonCore"}
ForeignTags == {"3.12"}

SetOpt(st, path, name, opt) ==
    IF IsSome(opt) THEN SetValue(st, path, name, Unwrap(opt)) ELSE st

Registered(st, scope, company, tag, shape) ==
    LET tag_key == <<scope, company, tag>>
        install_path == Append(tag_key, INSTALL_PATH)
        a == SetOpt(CreateKey(st, tag_key), tag_key, "SysVersion", shape.sys)
    IN  IF shape.install_path
        THEN SetOpt(CreateKey(a, install_path), install_path, "ExecutablePath", shape.exe)
        ELSE a

TagKeys(st) == { p \in DOMAIN st.keys : Len(p) = 3 }

\* Another tool registers one tag.
Register(scope, company, tag, shape) ==
    /\ Cardinality(TagKeys(store)) < MaxForeign
    /\ ~Exists(store, <<scope, company, tag>>)
    /\ \A other \in Children(store, <<scope>>) :
           Lower(other) = Lower(company) => other = company
    /\ store' = Registered(store, scope, company, tag, shape)
    /\ scan' = None
    /\ UNCHANGED <<pc, cur, pointer_width, errors, calls, before, input, output>>

Faulty(st) == { p \in DOMAIN st.keys : ~st.keys[p].open \/ ~st.keys[p].list }

\* Opening a key starts to fail (access is denied, or the key is broken).
DenyOpen(path) ==
    /\ Exists(store, path)
    /\ Cardinality(Faulty(store)) < MaxFaults
    /\ store.keys[path].open /\ store.keys[path].list
    /\ store' = [store EXCEPT !.keys[path].open = FALSE]
    /\ scan' = None
    /\ UNCHANGED <<pc, cur, pointer_width, errors, calls, before, input, output>>

\* Enumerating the subkeys of a key starts to fail.
DenyList(path) ==
    /\ Exists(store, path)
    /\ Len(path) <= 2
    /\ Cardinality(Faulty(store)) < MaxFaults
    /\ store.keys[path].open /\ store.keys[path].list
    /\ store' = [store EXCEPT !.keys[path].list = FALSE]
    /\ scan' = None
    /\ UNCHANGED <<pc, cur, pointer_width, errors, calls, before, input, output>>

(***************************************************************************)
(* The Ranker alone: the sort applied to any sequence of entries.          *)
(***************************************************************************)
RankPaths == {"", PATH_311, PATH_312}
RankVersions == {None, Some(<<3, 11, 5>>), Some(<<3, 12, 0>>)}
RankEntries == { WindowsPython(p, v) : p \in RankPaths, v \in RankVersions }

SeqsUpTo(S, n) == UNION { [1..m -> S] : m \in 0..n }

SortFound ==
    /\ output = None
    /\ output' = Some(Rank(input))
    /\ UNCHANGED <<store, scan, pc, cur, pointer_width, errors, calls, before, input>>

(***************************************************************************)
(* Specifications.                                                         *)
(***************************************************************************)
\* The registries a batch starts from: empty, or holding a machine-wide interpreter
\* of another vendor and a tag left by an earlier run for CPython 3.13.1.
InitialStores ==
    { EmptyStore,
      Registered(Registered(EmptyStore, LOCAL_MACHINE, "PythonCore", "3.12",
                            Shape(TRUE, Some(Sz(PATH_312)), Some(Sz("3.12")))),
                 CURRENT_USER, COMPANY, "CPython3.13.1",
                 Shape(TRUE, Some(Sz(PATH_311)), Some(Sz("3.11.5")))) }

Idle ==
    /\ scan = None
    /\ pc = 0
    /\ cur = None
    /\ pointer_width = 0
    /\ errors = <<>>
    /\ calls = <<>>
    /\ input = <<>>
    /\ output = None

\* A batch of registrations, with discovery running at any moment.
Init ==
    /\ store \in InitialStores
    /\ before = store
    /\ Idle

Next ==
    \/ \E inst \in Installations : CreateRegistryEntry(inst)
    \/ WriteOk
    \/ WriteErr
    \/ Scan

Spec == Init /\ [][Next]_vars

\* Discovery on a registry filled by other tools.
InitScan ==
    /\ store = EmptyStore
    /\ before = store
    /\ Idle

NextScan ==
    \/ \E scope \in Scopes, company \in ForeignCompanies, tag \in ForeignTags,
          shape \in Shapes : Register(scope, company, tag, shape)
    \/ \E path \in DOMAIN store.keys : DenyOpen(path)
    \/ \E path \in DOMAIN store.keys : DenyList(path)
    \/ Scan

SpecScan == InitScan /\ [][NextScan]_vars

\* The sort on any sequence of entries.
InitRank ==
    /\ store = EmptyStore
    /\ before = store
    /\ scan = None
    /\ pc = 0
    /\ cur = None
    /\ pointer_width = 0
    /\ errors = <<>>
    /\ calls = <<>>
    /\ input \in SeqsUpTo(RankEntries, MaxEntries)
    /\ output = None

NextRank == SortFound

SpecRank == InitRank /\ [][NextRank]_vars

\* read_registry_entry on tags of every shape.
EntryTags == {"3.12"}
NextEntry ==
    \/ \E scope \in Scopes, tag \in EntryTags, shape \in AllShapes :
          Register(scope, "PythonCore", tag, shape)
    \/ Scan

SpecEntry == InitScan /\ [][NextEntry]_vars

(***************************************************************************)
(* Properties of the Ranker (SpecRank).                                    *)
(***************************************************************************)
Versioned(e) == e.version # None
\* v is a higher version than w.
Higher(v, w) ==
    \/ v[1] > w[1]
    \/ v[1] = w[1] /\ v[2] > w[2]
    \/ v[1] = w[1] /\ v[2] = w[2] /\ v[3] > w[3]
PathBefore(p, q) == PathRank(p) <= PathRank(q)
Shuffles(s) == { [i \in 1..Len(s) |-> s[f[i]]] : f \in Perms(1..Len(s)) }

\* C1: in the returned list every entry with a version comes before every entry
\* without one: no versionless entry precedes a versioned one.
C1_VersionedBeforeVersionless ==
    IsSome(output) =>
        LET out == Unwrap(output)
        IN  \A i, j \in 1..Len(out) :
                i < j => ~(~Versioned(out[i]) /\ Versioned(out[j]))

\* C7: the sorted list is the same for every order in which the entries were
\* found; in it the versioned entries are in descending version order, entries of
\* one version in ascending path order, and the versionless entries in ascending
\* path order.
C7_RankDeterministic ==
    IsSome(output) =>
        LET out == Unwrap(output)
        IN  /\ \A s \in Shuffles(input) : Rank(s) = out
            /\ \A i, j \in 1..Len(out) :
                 i < j =>
                   /\ Versioned(out[i]) /\ Versioned(out[j]) =>
                        \/ Higher(Unwrap(out[i].version), Unwrap(out[j].version))
                        \/ /\ out[i].version = out[j].version
                           /\ PathBefore(out[i].path, out[j].path)
                   /\ ~Versioned(out[i]) /\ ~Versioned(out[j]) =>
                        PathBefore(out[i].path, out[j].path)

\* The sort has reordered three entries, two of one version and distinct paths.
C7_Witness ==
    /\ IsSome(output)
    /\ Len(input) = 3
    /\ Unwrap(output) # input
    /\ \E i, j \in 1..Len(input) :
          /\ Versioned(input[i])
          /\ input[i].version = input[j].version
          /\ input[i].path # input[j].path
    /\ \E i \in 1..Len(input) : ~Versioned(input[i])

(***************************************************************************)
(* Properties of the Writer (Spec).                                        *)
(***************************************************************************)
\* The store holds everything a complete registration of inst writes.
FullyWritten(st, inst, pw) ==
    \A k \in 1..LastStep :
        Present(k, inst) =>
            LET m == Step(k, inst, pw)
            IN  IF m.op = "create"
                THEN Exists(st, m.path)
                ELSE /\ <<m.path, m.name>> \in DOMAIN st.vals
                     /\ st.vals[<<m.path, m.name>>] = m.value

WidthOf(inst) == IF family_pointer_width(inst.arch) = Some(U32) THEN 32 ELSE 64
WriteFailed(c) == c.failed # 0
KeysOf(cs) == [i \in 1..Len(cs) |-> key(cs[i].inst)]

\* C2: a call whose store write fails returns Ok(()) and adds exactly one (key,
\* error) pair for its installation; later installations are still written; the
\* errors list holds exactly the keys of the installations whose write failed, in
\* call order, and a successful installation adds none.
C2_BatchIsolation ==
    /\ [i \in 1..Len(errors) |-> errors[i][1]] = KeysOf(SelectSeq(calls, WriteFailed))
    /\ \A i \in 1..Len(calls) :
          /\ WriteFailed(calls[i]) => calls[i].ret = RetOk
          /\ (calls[i].ret = RetOk /\ ~WriteFailed(calls[i])) =>
                FullyWritten(store, calls[i].inst, WidthOf(calls[i].inst))

\* The first installation's write failed, the second one's succeeded and is in the
\* store, and the errors list names the first only.
C2_Witness ==
    /\ Len(calls) = 2
    /\ WriteFailed(calls[1])
    /\ calls[2].ret = RetOk /\ ~WriteFailed(calls[2])
    /\ calls[1].inst # calls[2].inst
    /\ errors = << <<key(calls[1].inst), IoError>> >>
    /\ FullyWritten(store, calls[2].inst, WidthOf(calls[2].inst))

Recognized == {Some(U32), Some(U64)}

\* C3: the call derives 32 for a 32-bit family and 64 for a 64-bit one; for any
\* other pointer width it returns InvalidPointerSize carrying the architecture, and
\* then no key or value is created or changed and the errors list is unchanged.
C3_PointerWidth ==
    [][ (pc = 0 /\ (pc' # 0 \/ Len(calls') > Len(calls))) =>
          IF pc' # 0
          THEN LET w == family_pointer_width(Unwrap(cur').arch)
               IN  \/ w = Some(U32) /\ pointer_width' = 32
                   \/ w = Some(U64) /\ pointer_width' = 64
          ELSE LET c == calls'[Len(calls')]
               IN  /\ family_pointer_width(c.inst.arch) \notin Recognized
                   /\ c.ret = InvalidPointerSize(c.inst.arch)
                   /\ store' = store
                   /\ errors' = errors ]_vars

\* A call returned InvalidPointerSize after an earlier call had written to the store
\* and left an error in the list.
C3_Witness ==
    /\ Len(calls) = 2
    /\ WriteFailed(calls[1]) /\ calls[1].failed > 4
    /\ calls[2].ret = InvalidPointerSize("avr")
    /\ Len(errors) = 1
    /\ pc = 0

\* The installation of the running call, or of the last finished one.
Subject == IF pc # 0 THEN cur ELSE IF calls # <<>> THEN Some(calls[Len(calls)].inst) ELSE None

\* How many store calls of the running or last call have succeeded.
Done ==
    LET inst == Unwrap(Subject)
        upto == IF pc # 0 THEN pc - 1
                ELSE IF calls[Len(calls)].ret # RetOk THEN 0
                ELSE IF WriteFailed(calls[Len(calls)]) THEN calls[Len(calls)].failed - 1
                ELSE LastStep
    IN  Cardinality({ k \in 1..upto : Present(k, inst) })

\* The mutations of one registration in their stated order.
Mutations(inst) ==
    LET vendor == <<"HKCU", "Astral">>
        tag == <<"HKCU", "Astral", inst.pretty \o ReleaseText(inst.version)>>
        ip == Append(tag, "InstallPath")
        width == ToString(WidthOf(inst))
    IN  << Create(vendor),
           Set(vendor, "DisplayName", "Astral"),
           Set(vendor, "SupportUrl", "https://github.com/astral-sh/uv"),
           Create(tag),
           Set(tag, "DisplayName",
               inst.pretty \o " " \o ReleaseText(inst.version) \o " (" \o width \o "-bit)"),
           Set(tag, "SupportUrl", "https://github.com/astral-sh/uv"),
           Set(tag, "Version", ReleaseText(inst.version)),
           Set(tag, "SysVersion", sys_version(inst)),
           Set(tag, "SysArchitecture", width \o "bit") >>
        \o (IF IsSome(inst.url) THEN << Set(tag, "DownloadUrl", inst.url[1]) >> ELSE <<>>)
        \o (IF IsSome(inst.sha256)
            THEN << Set(tag, "DownloadSha256", inst.sha256[1]) >> ELSE <<>>)
        \o << Create(ip),
              Set(ip, "", inst.path),
              Set(ip, "ExecutablePath", executable(inst, FALSE)),
              Set(ip, "WindowedExecutablePath", executable(inst, TRUE)) >>

RECURSIVE ApplyAll(_, _)
ApplyAll(st, ms) == IF ms = <<>> THEN st ELSE ApplyAll(Apply(st, Head(ms)), Tail(ms))

InScope(st, scope) ==
    [keys |-> [p \in { q \in DOMAIN st.keys : q[1] = scope } |-> st.keys[p]],
     vals |-> [v \in { x \in DOMAIN st.vals : x[1][1] = scope } |-> st.vals[v]]]

\* C9: the mutations are made in one fixed order; when the k-th fails the store is
\* the store before the call plus mutations 1..k-1 and nothing else: nothing is
\* rolled back, nothing later is attempted, no key or value is deleted, and the
\* machine-wide scope is never modified.
C9_FailStop ==
    IsSome(Subject) =>
        /\ store = ApplyAll(before, SubSeq(Mutations(Unwrap(Subject)), 1, Done))
        /\ DOMAIN before.keys \subseteq DOMAIN store.keys
        /\ DOMAIN before.vals \subseteq DOMAIN store.vals
        /\ InScope(store, LOCAL_MACHINE) = InScope(before, LOCAL_MACHINE)

\* A write failed in the middle of a tag, on a registry that held a machine-wide
\* entry: the tag is there without its InstallPath.
C9_Witness ==
    /\ pc = 0
    /\ calls # <<>>
    /\ calls[Len(calls)].failed \in 6..12
    /\ Exists(store, tag_key_of(Unwrap(Subject)))
    /\ ~Exists(before, tag_key_of(Unwrap(Subject)))
    /\ ~Exists(store, install_path_of(Unwrap(Subject)))
    /\ InScope(store, LOCAL_MACHINE) # EmptyStore

\* The entry a finished registration of inst is discovered as.
Discovered(inst) == WindowsPython(executable(inst, FALSE), from_str(sys_version(inst)))

\* C10: discovery on the store as it is between two mutations of a registration of
\* a tag that did not exist before, or after that registration failed, does not
\* fail because of the tag; it omits the installation until ExecutablePath is
\* written and from then on reports it with the console executable path and the
\* version of the SysVersion this registration wrote; it never reports the
\* installation root or the windowed executable.
C10_PartialNeverPoisons ==
    (/\ IsSome(scan)
     /\ IsSome(Subject)
     /\ calls # <<>> /\ pc = 0 => calls[Len(calls)].ret = RetOk
     /\ ~Exists(before, tag_key_of(Unwrap(Subject)))) =>
        LET inst == Unwrap(Subject)
            r == Unwrap(scan)
            was == registry_pythons(before, CHOOSE o \in EnumOrders(before) : TRUE)
            written == <<install_path_of(inst), "ExecutablePath">> \in DOMAIN store.vals
        IN  /\ r.ok = was.ok
            /\ r.ok => r.pythons = Rank(was.pythons \o
                                        IF written THEN <<Discovered(inst)>> ELSE <<>>)
            /\ written <=> Done >= Len(Mutations(inst)) - 1
            /\ \A i \in 1..Len(r.pythons) :
                  r.pythons[i].path \notin {inst.path, executable(inst, TRUE)}

\* Discovery ran between the write of ExecutablePath and that of
\* WindowedExecutablePath of a new tag and reported the installation.
C10_Witness ==
    /\ pc = LastStep
    /\ IsSome(scan)
    /\ ~Exists(before, tag_key_of(Unwrap(cur)))
    /\ \E i \in 1..Len(Unwrap(scan).pythons) :
          Unwrap(scan).pythons[i] = Discovered(Unwrap(cur))
    /\ IsSome(Discovered(Unwrap(cur)).version)

(***************************************************************************)
(* Properties of discovery (SpecScan, SpecEntry).                          *)
(***************************************************************************)
UnderReserved(path) == Len(path) >= 2 /\ path[2] = "PyLauncher"

\* The store without the reserved namespaces and all they hold.
WithoutReserved(st) ==
    [keys |-> [p \in { q \in DOMAIN st.keys : ~UnderReserved(q) } |-> st.keys[p]],
     vals |-> [v \in { x \in DOMAIN st.vals : ~UnderReserved(x[1]) } |-> st.vals[v]]]

\* C4: nothing under a vendor namespace named exactly "PyLauncher", in either
\* scope, is in the result, whatever it holds, and the namespace is never opened or
\* enumerated, so that a failure inside it cannot fail the scan: the scan returns
\* what it returns on the store without these namespaces.  A namespace whose name
\* differs in case only is scanned like any other vendor.
C4_ReservedSkipped ==
    IsSome(scan) =>
        LET r == Unwrap(scan)
        IN  /\ \A p \in r.opened : ~UnderReserved(p)
            /\ \A o \in EnumOrders(WithoutReserved(store)) :
                  LET bare == registry_pythons(WithoutReserved(store), o)
                  IN  r.ok = bare.ok /\ r.pythons = bare.pythons
            /\ \A scope \in Scopes :
                  (r.ok /\ CanOpen(store, <<scope>>) /\ CanOpen(store, <<scope, "pylauncher">>))
                      => /\ <<scope, "pylauncher">> \in r.opened
                         /\ \A tag \in Children(store, <<scope, "pylauncher">>) :
                               <<scope, "pylauncher", tag>> \in r.opened

Usable(st, tag_key) ==
    /\ CanOpen(st, Append(tag_key, "InstallPath"))
    /\ <<Append(tag_key, "InstallPath"), "ExecutablePath">> \in DOMAIN st.vals
    /\ st.vals[<<Append(tag_key, "InstallPath"), "ExecutablePath">>].type = "REG_SZ"

\* A scan succeeded although the reserved namespace of one scope holds a usable tag
\* and cannot be enumerated; the one entry it returned is that of "pylauncher".
C4_Witness ==
    /\ IsSome(scan)
    /\ Unwrap(scan).ok
    /\ Len(Unwrap(scan).pythons) = 1
    /\ \E scope \in Scopes :
          /\ Exists(store, <<scope, "PyLauncher", "3.12">>)
          /\ Usable(store, <<scope, "PyLauncher", "3.12">>)
          /\ ~store.keys[<<scope, "PyLauncher">>].list
    /\ \E scope \in Scopes :
          /\ <<scope, "pylauncher", "3.12">> \in Unwrap(scan).opened
          /\ Usable(store, <<scope, "pylauncher", "3.12">>)

\* The vendor namespaces the scan reaches: not reserved, under a root that opens
\* and enumerates, and opening themselves.
Reached(st) ==
    { p \in DOMAIN st.keys :
        /\ Len(p) = 2
        /\ p[2] # "PyLauncher"
        /\ CanOpen(st, <<p[1]>>) /\ CanList(st, <<p[1]>>)
        /\ CanOpen(st, p) }

\* The failures that are hard errors, as the errors they make the scan return.
HardErrors(st) ==
    { <<"keys", scope>> : scope \in { x \in Scopes : CanOpen(st, <<x>>) /\ ~CanList(st, <<x>>) } }
        \cup { <<"keys">> \o p : p \in { q \in Reached(st) : ~CanList(st, q) } }
        \cup { <<"open">> \o t : t \in { u \in TagKeys(st) :
                  /\ <<u[1], u[2]>> \in Reached(st)
                  /\ CanList(st, <<u[1], u[2]>>)
                  /\ ~CanOpen(st, u) } }

\* C5: when enumerating the vendor namespaces of an opened vendor root, enumerating
\* the tags of an opened vendor namespace, or opening an enumerated tag fails, in
\* either scope, the scan returns that error and no list, whatever it had collected.
C5_HardScanError ==
    (IsSome(scan) /\ HardErrors(store) # {}) =>
        /\ ~Unwrap(scan).ok
        /\ Unwrap(scan).pythons = <<>>
        /\ Unwrap(scan).err \in HardErrors(store)

\* The scan failed on the machine-wide scope after it had read a usable entry in the
\* user scope.
C5_Witness ==
    /\ IsSome(scan)
    /\ ~Unwrap(scan).ok
    /\ Unwrap(scan).err[2] = LOCAL_MACHINE
    /\ \E t \in TagKeys(store) :
          t[1] = CURRENT_USER /\ t \in Unwrap(scan).opened /\ Usable(store, t)

\* The entry of a usable tag: its ExecutablePath text, and its SysVersion when that
\* is a text that parses.
EntryOf(st, tag_key) ==
    LET exe == st.vals[<<Append(tag_key, "InstallPath"), "ExecutablePath">>].data
        has == /\ <<tag_key, "SysVersion">> \in DOMAIN st.vals
               /\ st.vals[<<tag_key, "SysVersion">>].type = "REG_SZ"
        parsed == { p \in VersionTexts : has /\ p[1] = st.vals[<<tag_key, "SysVersion">>].data }
    IN  [path |-> exe,
         version |-> IF parsed = {} THEN <<>> ELSE <<(CHOOSE p \in parsed : TRUE)[2]>>]

\* The tags discovery owes an entry for.
Owed(st) == { t \in TagKeys(st) : <<t[1], t[2]>> \in Reached(st) /\ Usable(st, t) }
Count(s, e) == Cardinality({ i \in 1..Len(s) : s[i] = e })

\* C6: a vendor root that cannot be opened, a vendor namespace that cannot be
\* opened, a tag without a usable InstallPath\ExecutablePath text and a SysVersion
\* that does not parse neither fail the scan nor drop any other entry: the result
\* holds exactly one entry for every usable tag of every reached vendor, the entry
\* of a tag with an unparsable SysVersion having its path and no version.
C6_SoftFail ==
    (IsSome(scan) /\ HardErrors(store) = {}) =>
        LET r == Unwrap(scan)
        IN  /\ r.ok
            /\ Len(r.pythons) = Cardinality(Owed(store))
            /\ \A t \in Owed(store) :
                  Count(r.pythons, EntryOf(store, t))
                      = Cardinality({ u \in Owed(store) : EntryOf(store, u) = EntryOf(store, t) })

\* One scope's root cannot be opened although it holds a tag; the other scope's tag
\* has a SysVersion that does not parse and is returned without a version.
C6_Witness ==
    /\ IsSome(scan)
    /\ Unwrap(scan).ok
    /\ \E scope \in Scopes :
          /\ Exists(store, <<scope>>) /\ ~CanOpen(store, <<scope>>)
          /\ \E t \in TagKeys(store) : t[1] = scope
    /\ Unwrap(scan).pythons = << WindowsPython(PATH_311, None) >>

\* The texts of the ExecutablePath values of the tags.
ExeTexts(st) ==
    { st.vals[<<Append(t, "InstallPath"), "ExecutablePath">>].data :
        t \in { u \in TagKeys(st) : Usable(st, u) } }

\* A result entry is the entry of some tag.
FromTag(st, e) == \E t \in TagKeys(st) : Usable(st, t) /\ EntryOf(st, t) = e

\* C8 as stated: every entry has a non-empty path and a version that, when present,
\* is the parsed SysVersion of its tag; an empty ExecutablePath yields no entry.
C8_NonEmptyPath ==
    IsSome(scan) =>
        \A i \in 1..Len(Unwrap(scan).pythons) :
            /\ Unwrap(scan).pythons[i].path # ""
            /\ FromTag(store, Unwrap(scan).pythons[i])

\* C8 amended: the path of every entry is the ExecutablePath text of its tag, which
\* may be the empty text, and its version, when present, is the parsed SysVersion
\* text of that tag; every tag with an ExecutablePath text, the empty one included,
\* yields an entry.
C8_PathIsExecutablePath ==
    IsSome(scan) =>
        /\ \A i \in 1..Len(Unwrap(scan).pythons) : FromTag(store, Unwrap(scan).pythons[i])
        /\ \A x \in ExeTexts(store) :
              \E i \in 1..Len(Unwrap(scan).pythons) : Unwrap(scan).pythons[i].path = x

\* A tag with the empty text as ExecutablePath and a parsable SysVersion was
\* scanned and is in the result.
C8_Witness ==
    /\ IsSome(scan)
    /\ \E i \in 1..Len(Unwrap(scan).pythons) :
          /\ Unwrap(scan).pythons[i].path = ""
          /\ IsSome(Unwrap(scan).pythons[i].version)

====
